---- MODULE Spec2Model ----
(***************************************************************************)
(* Model of the notebook Simulacion_Modificada_Markov_RACH.ipynb: one code *)
(* cell that (a) solves an absorbing Markov chain with three transient     *)
(* states by the fundamental-matrix method and (b) estimates the same      *)
(* quantities by a seeded Monte Carlo simulation.                          *)
(*                                                                         *)
(* Real numbers are modelled as exact rationals <<num, den>> in lowest     *)
(* terms with den > 0 (floating-point rounding is not modelled).  Arrays   *)
(* are sequences, so the source's index i is the model's index i + 1.      *)
(***************************************************************************)
EXTENDS Integers, Sequences, FiniteSets, TLC

\* ---------------------------------------------------------------- bounds
\* p_exito ranges over the fractions k/d with d <= MaxDen.
MaxDen == 5
\* num_pruebas of the model (1_000_000 in the notebook).
NumTrials == 3

\* ------------------------------------------------------ program constants
\* range(1, 4): the attempts of one user.
MaxAttempts == 3
\* total_intentos += 3: the attempts credited to a failed user.
FailCredit == 3
\* np.identity(3), np.ones(3): the number of transient states.
NumStates == 3
\* np.random.default_rng(seed=123)
Seed == 123
\* The columns of R: the absorbing states S3 (exito) and S4 (fracaso).
NumAbsorbing == 2

\* A name of the kernel that no statement has bound yet.
Undef == <<>>

\* ------------------------------------------------------------- rationals
Abs(x) == IF x < 0 THEN -x ELSE x

RECURSIVE Gcd(_, _)
Gcd(a, b) == IF b = 0 THEN a ELSE Gcd(b, a % b)

RNorm(r) ==
    LET g == Gcd(Abs(r[1]), Abs(r[2]))
        s == IF r[2] < 0 THEN -1 ELSE 1
    IN  <<(s * r[1]) \div g, (s * r[2]) \div g>>

RZero == <<0, 1>>
ROne == <<1, 1>>
RInt(n) == <<n, 1>>
RAdd(a, b) == RNorm(<<a[1] * b[2] + b[1] * a[2], a[2] * b[2]>>)
RSub(a, b) == RNorm(<<a[1] * b[2] - b[1] * a[2], a[2] * b[2]>>)
RMul(a, b) == RNorm(<<a[1] * b[1], a[2] * b[2]>>)
\* a / b for b # 0
RDiv(a, b) == RNorm(<<a[1] * b[2], a[2] * b[1]>>)
RLt(a, b) == a[1] * b[2] < b[1] * a[2]
RLe(a, b) == a[1] * b[2] <= b[1] * a[2]

RECURSIVE RSum(_)
RSum(s) == IF s = <<>> THEN RZero ELSE RAdd(Head(s), RSum(Tail(s)))

\* ------------------------------------------------------------ matrices
\* np.identity(n)
Identity(n) == [i \in 1..n |-> [j \in 1..n |-> IF i = j THEN ROne ELSE RZero]]
\* np.ones(n)
Ones(n) == [i \in 1..n |-> ROne]
\* A - B, elementwise
MatSub(A, B) == [i \in 1..Len(A) |-> [j \in 1..Len(A[i]) |-> RSub(A[i][j], B[i][j])]]
\* u @ v for two vectors
Dot(u, v) == RSum([i \in 1..Len(u) |-> RMul(u[i], v[i])])
\* A @ B
MatMul(A, B) ==
    [i \in 1..Len(A) |->
        [j \in 1..Len(B[1]) |-> RSum([m \in 1..Len(B) |-> RMul(A[i][m], B[m][j])])]]

\* The cyclic successor of an index of a 3x3 matrix.
Nxt(i) == (i % NumStates) + 1
\* The signed cofactor of entry (r, c) of a 3x3 matrix.
Cof(M, r, c) ==
    RSub(RMul(M[Nxt(r)][Nxt(c)], M[Nxt(Nxt(r))][Nxt(Nxt(c))]),
         RMul(M[Nxt(r)][Nxt(Nxt(c))], M[Nxt(Nxt(r))][Nxt(c)]))
Det(M) == RSum([c \in 1..NumStates |-> RMul(M[1][c], Cof(M, 1, c))])
\* A faulty inverse: the cofactor matrix divided by Det, without the transposition.
InvTransposed(M) ==
    [i \in 1..NumStates |-> [j \in 1..NumStates |-> RDiv(Cof(M, i, j), Det(M))]]
\* np.linalg.inv(M): the inverse of a non-singular 3x3 matrix (adjugate / det).
\* numpy raises LinAlgError on a singular matrix; the caller tests Det first.
Inv(M) ==
    [i \in 1..NumStates |-> [j \in 1..NumStates |-> RDiv(Cof(M, j, i), Det(M))]]

\* ------------------------------------------------------------------ state
VARIABLES
    p_exito,             \* parameter: probability of success of one attempt
    num_pruebas,         \* parameter: number of simulated users
    p_fallo,             \* 1 - p_exito
    Q, R,                \* transient->transient and transient->absorbing blocks
    N,                   \* fundamental matrix
    absorcion,           \* B = N @ R
    prob_exito_teorica, prob_fallo_teorica, intentos_teoricos,
    rng,                 \* the generator: its seed and how many values it has given
    stream,              \* the values the generator seeded with Seed gives, as far as drawn
    total_intentos, exitos, fracasos,
    k,                   \* iterations of the simulation loop started so far
    i,                   \* the attempt index inside intento_usuario
    resultado,           \* the value intento_usuario returned
    emp,                 \* the three empirical figures the cell reports
    error,               \* the exception that ended the cell, or "none"
    pc,                  \* the statement the cell is about to execute
    runs,                \* history: executions of the cell started so far
    prev,                \* history: the counters at the end of the previous execution
    trial_draws,         \* history: the draws of the current user, in order
    outcomes             \* history: resultado of every user of this execution

vars == <<p_exito, num_pruebas, p_fallo, Q, R, N, absorcion, prob_exito_teorica,
          prob_fallo_teorica, intentos_teoricos, rng, stream, total_intentos, exitos,
          fracasos, k, i, resultado, emp, error, pc, runs, prev, trial_draws, outcomes>>

chainVars == <<p_fallo, Q, R, N, absorcion, prob_exito_teorica, prob_fallo_teorica,
               intentos_teoricos>>
counterVars == <<total_intentos, exitos, fracasos>>
histVars == <<runs, prev>>
paramVars == <<p_exito, num_pruebas>>

\* ----------------------------------------------------------------- inputs
\* The valid success probabilities of the model: fractions in (0, 1].
ValidP == UNION {{RNorm(<<n, d>>) : n \in 1..d} : d \in 1..MaxDen}
\* Success probabilities outside (0, 1].
InvalidP == {<<0, 1>>, <<3, 2>>}
\* The values rng.random() gives in the model, both in [0, 1): the least one and
\* the largest valid p_exito below 1, so that every p_exito has a draw below it,
\* every p_exito < 1 a draw not below it, and one p_exito a draw equal to it.
DrawValues == {RZero, RNorm(<<MaxDen - 1, MaxDen>>)}

ValidParams == RLt(RZero, p_exito) /\ RLe(p_exito, ROne) /\ num_pruebas > 0

\* ------------------------------------------------------------ chain model
\* A faulty Q: the success probability where the failure probability belongs.
BuildQSwapped(pf) ==
    LET pe == RSub(ROne, pf)
    IN  <<<<RZero, pe, RZero>>, <<RZero, RZero, pe>>, <<RZero, RZero, RZero>>>>
\* Q = np.array([[0, p_fallo, 0], [0, 0, p_fallo], [0, 0, 0]])
BuildQ(pf) == <<<<RZero, pf, RZero>>, <<RZero, RZero, pf>>, <<RZero, RZero, RZero>>>>
\* A faulty R: no transition from the last attempt to Failure.
BuildRNoFail(pe, pf) == <<<<pe, RZero>>, <<pe, RZero>>, <<pe, RZero>>>>
\* R = np.array([[p_exito, 0], [p_exito, 0], [p_exito, p_fallo]])
BuildR(pe, pf) == <<<<pe, RZero>>, <<pe, RZero>>, <<pe, pf>>>>

\* p_exito = 0.60; p_fallo = 1 - p_exito
Params ==
    /\ pc = "params"
    /\ p_fallo' = RSub(ROne, p_exito)
    /\ pc' = "matrices"
    /\ UNCHANGED <<paramVars, Q, R, N, absorcion, prob_exito_teorica, prob_fallo_teorica,
                   intentos_teoricos, rng, stream, counterVars, k, i, resultado, emp,
                   error, histVars, trial_draws, outcomes>>

Matrices ==
    /\ pc = "matrices"
    /\ Q' = BuildQ(p_fallo)
    /\ R' = BuildR(p_exito, p_fallo)
    /\ pc' = "analysis"
    /\ UNCHANGED <<paramVars, p_fallo, N, absorcion, prob_exito_teorica,
                   prob_fallo_teorica, intentos_teoricos, rng, stream, counterVars, k, i,
                   resultado, emp, error, histVars, trial_draws, outcomes>>

\* I = np.identity(3); N = np.linalg.inv(I - Q); absorcion = N @ R;
\* prob_exito_teorica = absorcion[0, 0]; prob_fallo_teorica = absorcion[0, 1];
\* intentos_teoricos = N[0] @ np.ones(3)
Analysis ==
    /\ pc = "analysis"
    /\ LET IQ == MatSub(Identity(NumStates), Q)
       IN  IF Det(IQ) = RZero
           THEN /\ error' = "LinAlgError"
                /\ pc' = "done"
                /\ UNCHANGED <<N, absorcion, prob_exito_teorica, prob_fallo_teorica,
                               intentos_teoricos>>
           ELSE LET n == Inv(IQ)
                    b == MatMul(n, R)
                IN  /\ N' = n
                    /\ absorcion' = b
                    /\ prob_exito_teorica' = b[1][1]
                    /\ prob_fallo_teorica' = b[1][2]
                    /\ intentos_teoricos' = Dot(n[1], Ones(NumStates))
                    /\ pc' = "siminit"
                    /\ error' = error
    /\ UNCHANGED <<paramVars, p_fallo, Q, R, rng, stream, counterVars, k, i, resultado,
                   emp, histVars, trial_draws, outcomes>>

\* -------------------------------------------------------------- simulator
\* A faulty seeding: a later execution of the cell goes on with the generator the
\* earlier one left behind.
default_rng_stale(seed) ==
    [seed |-> seed, pos |-> IF runs = 1 THEN 0 ELSE rng.pos]
\* np.random.default_rng(seed): a generator at the start of the seed's stream.
default_rng(seed) == [seed |-> seed, pos |-> 0]

\* rng = np.random.default_rng(seed=123); num_pruebas = ...; total_intentos = 0;
\* exitos = 0; fracasos = 0
SimInit ==
    /\ pc = "siminit"
    /\ rng' = default_rng(Seed)
    /\ total_intentos' = 0
    /\ exitos' = 0
    /\ fracasos' = 0
    /\ k' = 0
    /\ outcomes' = <<>>
    /\ pc' = "loop"
    /\ UNCHANGED <<paramVars, chainVars, stream, i, resultado, emp, error, histVars,
                   trial_draws>>

\* for _ in range(num_pruebas): resultado = intento_usuario(p_exito)
Loop ==
    /\ pc = "loop"
    /\ IF k < num_pruebas
       THEN /\ k' = k + 1
            /\ i' = 1
            /\ trial_draws' = <<>>
            /\ pc' = "call"
       ELSE /\ pc' = "report"
            /\ UNCHANGED <<k, i, trial_draws>>
    /\ UNCHANGED <<paramVars, chainVars, rng, stream, counterVars, resultado, emp, error,
                   histVars, outcomes>>

\* A faulty comparison: the operands exchanged.
HitFlipped(u, prob_exito) == RLt(prob_exito, u)
\* rng.random() < prob_exito
Hit(u, prob_exito) == RLt(u, prob_exito)

\* Faulty loops: one that does not return at the first hit, and range(1, 5).
AfterDrawNoStop(a, hit) ==
    IF a < MaxAttempts THEN [returned |-> FALSE, value |-> a + 1]
    ELSE [returned |-> TRUE, value |-> IF hit THEN a ELSE 0]
AfterDrawExtra(a, hit) ==
    IF hit THEN [returned |-> TRUE, value |-> a]
    ELSE IF a < MaxAttempts + 1 THEN [returned |-> FALSE, value |-> a + 1]
    ELSE [returned |-> TRUE, value |-> 0]
\* One pass of `for i in range(1, 4)` after its draw: return i on a hit, go on to
\* attempt i + 1 on a miss, return 0 when the range is exhausted.
AfterDraw(a, hit) ==
    IF hit THEN [returned |-> TRUE, value |-> a]
    ELSE IF a < MaxAttempts THEN [returned |-> FALSE, value |-> a + 1]
    ELSE [returned |-> TRUE, value |-> 0]

\* The values the generator can give next: the stream of a seed is fixed, so a
\* position already drawn gives the same value again.
NextDraws == IF rng.pos < Len(stream) THEN {stream[rng.pos + 1]} ELSE DrawValues

\* One iteration of the loop of intento_usuario: lines 103-106.
Draw ==
    /\ pc = "call"
    /\ \E u \in NextDraws :
        LET r == AfterDraw(i, Hit(u, p_exito))
        IN  /\ stream' = IF rng.pos < Len(stream) THEN stream ELSE Append(stream, u)
            /\ rng' = [rng EXCEPT !.pos = @ + 1]
            /\ trial_draws' = Append(trial_draws, u)
            /\ IF r.returned
               THEN /\ resultado' = r.value
                    /\ pc' = "aggregate"
                    /\ i' = i
               ELSE /\ i' = r.value
                    /\ pc' = "call"
                    /\ resultado' = resultado
    /\ UNCHANGED <<paramVars, chainVars, counterVars, k, emp, error, histVars, outcomes>>

\* Faulty credits: a failed user credited with its return value 0, or with 4.
CreditZero(res) == res
CreditFour(res) == IF res > 0 THEN res ELSE FailCredit + 1
\* The attempts a user is credited with: its success index, or 3 when it failed.
Credit(res) == IF res > 0 THEN res ELSE FailCredit

\* if resultado > 0: exitos += 1; total_intentos += resultado
\* else: fracasos += 1; total_intentos += 3
Aggregate ==
    /\ pc = "aggregate"
    /\ IF resultado > 0
       THEN exitos' = exitos + 1 /\ fracasos' = fracasos
       ELSE fracasos' = fracasos + 1 /\ exitos' = exitos
    /\ total_intentos' = total_intentos + Credit(resultado)
    /\ outcomes' = Append(outcomes, resultado)
    /\ pc' = "loop"
    /\ UNCHANGED <<paramVars, chainVars, rng, stream, k, i, resultado, emp, error,
                   histVars, trial_draws>>

\* The three figures of "RESULTADOS SIMULADOS": x / num_pruebas.
Empirical(ex, fr, tot, n) ==
    [exito |-> RNorm(<<ex, n>>), fallo |-> RNorm(<<fr, n>>), intentos |-> RNorm(<<tot, n>>)]

Report ==
    /\ pc = "report"
    /\ IF num_pruebas = 0
       THEN emp' = Undef /\ error' = "ZeroDivisionError"
       ELSE emp' = Empirical(exitos, fracasos, total_intentos, num_pruebas) /\ error' = error
    /\ pc' = "done"
    /\ UNCHANGED <<paramVars, chainVars, rng, stream, counterVars, k, i, resultado,
                   histVars, trial_draws, outcomes>>

\* The cell is executed again in the same kernel: every name keeps its value until
\* the cell assigns it again.
RunCell ==
    /\ pc = "done"
    /\ runs = 1
    /\ runs' = runs + 1
    /\ prev' = [exitos |-> exitos, fracasos |-> fracasos, total_intentos |-> total_intentos,
                emp |-> emp, error |-> error]
    /\ error' = "none"
    /\ pc' = "params"
    /\ UNCHANGED <<paramVars, chainVars, rng, stream, counterVars, k, i, resultado, emp,
                   trial_draws, outcomes>>

InitKernel ==
    /\ p_fallo = Undef /\ Q = Undef /\ R = Undef /\ N = Undef /\ absorcion = Undef
    /\ prob_exito_teorica = Undef /\ prob_fallo_teorica = Undef
    /\ intentos_teoricos = Undef
    /\ rng = Undef /\ stream = <<>>
    /\ total_intentos = Undef /\ exitos = Undef /\ fracasos = Undef
    /\ k = Undef /\ i = Undef /\ resultado = Undef /\ emp = Undef
    /\ error = "none" /\ pc = "params"
    /\ runs = 1 /\ prev = Undef /\ trial_draws = <<>> /\ outcomes = <<>>

\* The cell run with valid parameters.
Init ==
    /\ p_exito \in ValidP
    /\ num_pruebas \in 1..NumTrials
    /\ InitKernel

\* The cell run with any parameters.
InitAny ==
    /\ p_exito \in ValidP \cup InvalidP
    /\ num_pruebas \in -1..NumTrials
    /\ InitKernel

Next ==
    \/ Params
    \/ Matrices
    \/ Analysis
    \/ SimInit
    \/ Loop
    \/ Draw
    \/ Aggregate
    \/ Report
    \/ RunCell

Spec == Init /\ [][Next]_vars
SpecAny == InitAny /\ [][Next]_vars

\* ================================================================= claims
\* The statements of the simulation between SimInit and the report.
SimPcs == {"loop", "call", "aggregate", "report"}
\* All the draws d[1..n] missed: none is below the success probability.
AllMiss(d, n) == \A j \in 1..n : ~RLt(d[j], p_exito)

\* C1. A user makes its draws one at a time for attempt 1, 2, 3: while the call
\* runs, attempt i is next after i - 1 draws that all missed; it returns i
\* (Success, 1 <= i <= MaxAttempts) exactly when draw i is the first below
\* p_exito, and 0 (Failure) only after MaxAttempts draws that all missed.  No
\* user makes more than MaxAttempts draws, and every user ends in one of the two.
C1_TrialProcedure ==
    /\ Len(trial_draws) <= MaxAttempts
    /\ pc = "call" =>
        /\ i \in 1..MaxAttempts
        /\ Len(trial_draws) = i - 1
        /\ AllMiss(trial_draws, i - 1)
    /\ pc = "aggregate" =>
        \/ /\ resultado \in 1..MaxAttempts
           /\ Len(trial_draws) = resultado
           /\ RLt(trial_draws[resultado], p_exito)
           /\ AllMiss(trial_draws, resultado - 1)
        \/ /\ resultado = 0
           /\ Len(trial_draws) = MaxAttempts
           /\ AllMiss(trial_draws, MaxAttempts)

\* A second user fails after the first succeeded at its second attempt.
C1_Witness ==
    /\ pc = "aggregate" /\ resultado = 0
    /\ outcomes = <<2>>

\* The sum of the success indices among the outcomes, and the number of failures.
RECURSIVE SumSuccess(_)
SumSuccess(o) ==
    IF o = <<>> THEN 0 ELSE (IF Head(o) > 0 THEN Head(o) ELSE 0) + SumSuccess(Tail(o))
RECURSIVE CountFail(_)
CountFail(o) ==
    IF o = <<>> THEN 0 ELSE (IF Head(o) > 0 THEN 0 ELSE 1) + CountFail(Tail(o))

\* C2. Each aggregation increments exactly one of exitos / fracasos by 1 and adds
\* to total_intentos the success index, or MaxAttempts for a failed user; the
\* counters never decrease during the simulation, and total_intentos is the sum
\* of the success indices plus MaxAttempts * fracasos.
C2_Aggregation ==
    [][/\ pc = "aggregate" =>
            /\ resultado > 0 =>
                /\ exitos' = exitos + 1 /\ fracasos' = fracasos
                /\ total_intentos' = total_intentos + resultado
            /\ resultado = 0 =>
                /\ fracasos' = fracasos + 1 /\ exitos' = exitos
                /\ total_intentos' = total_intentos + MaxAttempts
       /\ pc \in SimPcs =>
            /\ exitos' >= exitos
            /\ fracasos' >= fracasos
            /\ total_intentos' >= total_intentos
       /\ pc' \in SimPcs =>
            /\ fracasos' = CountFail(outcomes')
            /\ total_intentos' = SumSuccess(outcomes') + MaxAttempts * fracasos'
      ]_vars

\* One success at attempt 2 and one failure have been aggregated.
C2_Witness ==
    /\ pc = "loop"
    /\ outcomes = <<2, 0>>
    /\ total_intentos = 2 + MaxAttempts

\* C10. Between users, with k users completed: exitos + fracasos = k,
\* k <= total_intentos <= MaxAttempts * k, and total_intentos is the number of
\* draws taken from the generator.  At the end k = num_pruebas, the two empirical
\* probabilities sum to 1 and the empirical mean attempts is in [1, MaxAttempts].
C10_Conservation ==
    /\ pc \in {"loop", "report"} =>
        /\ exitos + fracasos = k
        /\ k <= total_intentos
        /\ total_intentos <= MaxAttempts * k
        /\ total_intentos = rng.pos
    /\ pc \in {"report", "done"} =>
        /\ k = num_pruebas
    /\ (pc = "done" /\ error = "none") =>
        /\ RAdd(emp.exito, emp.fallo) = ROne
        /\ RLe(ROne, emp.intentos)
        /\ RLe(emp.intentos, RInt(MaxAttempts))

\* A run that ended with a success and a failure.
C10_Witness ==
    /\ pc = "done"
    /\ exitos = 1 /\ fracasos = 1
    /\ emp.exito = <<1, 2>>

\* C7. With p_exito = 1 the analytic success probability is 1, the failure
\* probability 0 and the expected attempts 1; and whatever the draws, every user
\* succeeds at its first attempt: after k users exitos = k, fracasos = 0,
\* total_intentos = k and k draws were taken.
C7_BoundaryOne ==
    p_exito = ROne =>
        /\ prob_exito_teorica # Undef =>
            /\ prob_exito_teorica = ROne
            /\ prob_fallo_teorica = RZero
            /\ intentos_teoricos = ROne
        /\ pc = "aggregate" => resultado = 1 /\ Len(trial_draws) = 1
        /\ pc \in {"loop", "report"} =>
            /\ exitos = k /\ fracasos = 0 /\ total_intentos = k /\ rng.pos = k

\* Two users done with p_exito = 1, the second with a draw other than 0.
C7_Witness ==
    /\ p_exito = ROne
    /\ pc = "report" /\ k = NumTrials
    /\ trial_draws # <<RZero>>

\* The analytic results have been computed.
Solved == prob_exito_teorica # Undef

\* C3. For every valid p_exito the analytic success probability and the analytic
\* failure probability (row 0 of N @ R) sum to 1.
C3_AbsorptionSumsToOne ==
    Solved => RAdd(prob_exito_teorica, prob_fallo_teorica) = ROne

\* Solved for a probability strictly between 0 and 1: both terms are non-zero.
C3_Witness ==
    /\ Solved
    /\ p_exito = <<2, 5>>
    /\ prob_fallo_teorica # RZero

\* The closed forms for three attempts, with q = 1 - p.
Cube(q) == RMul(q, RMul(q, q))
ClosedFailure(p) == Cube(RSub(ROne, p))
ClosedSuccess(p) == RSub(ROne, ClosedFailure(p))
ClosedAttempts(p) ==
    LET q == RSub(ROne, p) IN RAdd(ROne, RAdd(q, RMul(q, q)))

\* C4. The fundamental-matrix computation yields success = 1-(1-p)^3, failure =
\* (1-p)^3 and expected attempts = 1 + (1-p) + (1-p)^2; for p = 0.6 that is
\* 0.936, 0.064 and 1.56.
C4_ClosedForms ==
    Solved =>
        /\ prob_exito_teorica = ClosedSuccess(p_exito)
        /\ prob_fallo_teorica = ClosedFailure(p_exito)
        /\ intentos_teoricos = ClosedAttempts(p_exito)
        /\ p_exito = <<3, 5>> =>
            /\ prob_exito_teorica = RNorm(<<936, 1000>>)
            /\ prob_fallo_teorica = RNorm(<<64, 1000>>)
            /\ intentos_teoricos = RNorm(<<156, 100>>)

\* Solved for the notebook's own p_exito = 0.6.
C4_Witness ==
    /\ Solved
    /\ p_exito = <<3, 5>>
    /\ N[1] = <<ROne, <<2, 5>>, <<4, 25>>>>

\* States: S0, S1, S2 transient; S3 (exito) and S4 (fracaso) absorbing.  The full
\* transition matrix in canonical form, P = [[Q, R], [0, I]].
P ==
    [s \in 1..(NumStates + NumAbsorbing) |->
        [t \in 1..(NumStates + NumAbsorbing) |->
            IF s <= NumStates
            THEN IF t <= NumStates THEN Q[s][t] ELSE R[s][t - NumStates]
            ELSE IF s = t THEN ROne ELSE RZero]]

\* C8. Q[i][j] is 0 unless j = i + 1, where it is 1 - p; R[i][0] = p for every
\* transient state; R[i][1] is 0 except for the last transient state, where it is
\* 1 - p; every transient row of Q and R together sums to 1, and an absorbing
\* state has no transition to another state.
C8_TransitionStructure ==
    Q # Undef =>
        LET q == RSub(ROne, p_exito) IN
        /\ Len(Q) = MaxAttempts /\ Len(R) = MaxAttempts
        /\ \A s \in 1..MaxAttempts :
            /\ Len(Q[s]) = MaxAttempts /\ Len(R[s]) = NumAbsorbing
            /\ \A t \in 1..MaxAttempts : Q[s][t] = IF t = s + 1 THEN q ELSE RZero
            /\ R[s][1] = p_exito
            /\ R[s][2] = IF s = MaxAttempts THEN q ELSE RZero
            /\ RAdd(RSum(Q[s]), RSum(R[s])) = ROne
        /\ \A s \in (NumStates + 1)..(NumStates + NumAbsorbing) :
            \A t \in 1..(NumStates + NumAbsorbing) : t # s => P[s][t] = RZero

\* The matrices built for a probability that tells p from 1 - p.
C8_Witness ==
    /\ pc = "analysis"
    /\ p_exito = <<1, 4>>
    /\ Q[1][2] = <<3, 4>>

\* The probability that a user who is about to make draw a returns v, each hit
\* weighted p_exito and each miss 1 - p_exito, along the steps of AfterDraw.
RECURSIVE PReturn(_, _)
PReturn(a, v) ==
    LET Branch(r, w) ==
            IF r.returned THEN (IF r.value = v THEN w ELSE RZero)
            ELSE RMul(w, PReturn(r.value, v))
    IN  RAdd(Branch(AfterDraw(a, TRUE), p_exito),
             Branch(AfterDraw(a, FALSE), RSub(ROne, p_exito)))
TrialPSuccess == RSum([v \in 1..MaxAttempts |-> PReturn(1, v)])
TrialPFailure == PReturn(1, 0)
TrialExpectedCredit ==
    RAdd(RMul(PReturn(1, 0), RInt(Credit(0))),
         RSum([v \in 1..MaxAttempts |-> RMul(PReturn(1, v), RInt(Credit(v)))]))

\* The draw of attempt a is a transition of the chain out of transient state
\* a - 1 (row a of the model's Q and R) with the same probability, and the chain
\* has no other transition out of that state.
StepIsTransition(a) ==
    LET h == AfterDraw(a, TRUE)
        m == AfterDraw(a, FALSE)
        q == RSub(ROne, p_exito)
    IN  /\ h.returned /\ h.value > 0 /\ R[a][1] = p_exito
        /\ IF m.returned
           THEN /\ m.value = 0
                /\ R[a][2] = q
                /\ \A t \in 1..NumStates : Q[a][t] = RZero
           ELSE /\ R[a][2] = RZero
                /\ \A t \in 1..NumStates :
                        Q[a][t] = IF t = m.value THEN q ELSE RZero

\* C9. The user procedure and the chain are the same process: attempt a is
\* transient state a - 1, a hit the transition to Success, a miss the transition
\* to the next transient state or, from the last one, to Failure, with the same
\* probabilities and no other transition.  So the probability that a user ends
\* in Success (Failure) is absorcion[0][0] (absorcion[0][1]) and the expected
\* attempts credited to a user is the sum of row 0 of N.
C9_SimulatorIsChain ==
    /\ pc = "call" => i \in 1..NumStates
    /\ Solved =>
        /\ \A a \in 1..NumStates : StepIsTransition(a)
        /\ TrialPSuccess = absorcion[1][1]
        /\ TrialPFailure = absorcion[1][2]
        /\ TrialExpectedCredit = RSum(N[1])
        /\ TrialExpectedCredit = intentos_teoricos

\* A user at its last attempt, the chain solved for p_exito = 0.6.
C9_Witness ==
    /\ Solved
    /\ pc = "call" /\ i = MaxAttempts
    /\ p_exito = <<3, 5>>

\* C5. An execution of the cell with the same seed, p_exito and num_pruebas as
\* the one before ends with the same exitos, fracasos and total_intentos (and
\* the same reported figures), whatever counters and generator position the
\* earlier execution left behind.
C5_Determinism ==
    (pc = "done" /\ runs = 2) =>
        /\ exitos = prev.exitos
        /\ fracasos = prev.fracasos
        /\ total_intentos = prev.total_intentos
        /\ emp = prev.emp

\* The second execution has ended, the first having left a generator that had
\* given five values and counters of one success and one failure.
C5_Witness ==
    /\ pc = "done" /\ runs = 2
    /\ Len(stream) = 5
    /\ prev.exitos = 1 /\ prev.fracasos = 1

\* C6. Invalid parameters (p_exito = 0, p_exito > 1, num_pruebas <= 0) are
\* rejected with InvalidParameter and no numeric result is computed from them.
C6_InvalidRejected ==
    ~ValidParams =>
        /\ prob_exito_teorica = Undef
        /\ intentos_teoricos = Undef
        /\ emp = Undef
        /\ pc = "done" => error = "InvalidParameter"

====
